---- MODULE Spec2Model ----
(***************************************************************************)
(* Hook execution engine of hooks/hookexecution/execution.go:              *)
(* executeStage runs the groups of a plan one after another; executeGroup  *)
(* fans the hooks of a group out to one goroutine each (executeHook),      *)
(* collectHookResponses gathers their responses from the unbuffered        *)
(* channel resp until it is closed or a response asks to reject, and       *)
(* handleHookResponses folds the collected responses into outcomes, the    *)
(* payload and an optional RejectError.                                    *)
(***************************************************************************)
EXTENDS Integers, Sequences, FiniteSets, TLC

\* ------------------------------------------------------------------ bounds
MaxGroups == 2      \* longest plan
MaxHooks == 2       \* most hooks in one group
MaxPlanHooks == 3   \* most hooks in one plan
MaxMuts == 3        \* longest ChangeSet drawn for the mutation loop
Timeout == 2        \* group.Timeout, in ticks
InitPayload == 1    \* payload handed to executeStage

\* ------------------------------------------------- external collaborators
Stages == {"entrypoint", "auctionresponse"}

\* hooks.Stage.IsRejectable: the capability query of the stage.
IsRejectable(s) == s # "auctionresponse"

\* Outcome constants (declared next to HookOutcome).
StatusSuccess == "success"
StatusTimeout == "timeout"
StatusFailure == "failure"
StatusExecutionFailure == "execution_failure"
ActionNone == "none"
ActionUpdate == "update"
ActionReject == "reject"

\* Error values a response can carry; NoErr is Go's nil error.
NoErr == "nil"
TimeoutError == "TimeoutError"
FailureError == "FailureError"
OtherError == "error"
Errs == {NoErr, TimeoutError, FailureError, OtherError}

\* Payloads are naturals; Garbage is the value a failed Apply hands back
\* next to its error (the code must not use it).
Garbage == 99
MutationKinds == {"inc", "dbl", "dec", "bad"}

\* hookstage.Mutation.Apply: "inc" and "dbl" always succeed, "dec" fails on
\* a zero payload, "bad" always fails.
Apply(mut, p) ==
  CASE mut = "inc" -> [p |-> p + 1, err |-> FALSE]
    [] mut = "dbl" -> [p |-> 2 * p, err |-> FALSE]
    [] mut = "dec" -> IF p = 0 THEN [p |-> Garbage, err |-> TRUE]
                               ELSE [p |-> p - 1, err |-> FALSE]
    [] OTHER       -> [p |-> Garbage, err |-> TRUE]

\* A ChangeSet is absent (nil) or an ordered list of mutations.
NilChangeSet == [present |-> FALSE, muts |-> <<>>]
ChangeSetOf(ms) == [present |-> TRUE, muts |-> ms]

\* HookID{ModuleCode, HookImplCode} of hook h of group g: the hook code
\* names the group; the hooks of the first group belong to different
\* modules and the hooks of the second group to the same module.
NumModules == 2
ModuleOf(g, h) == ((g * (h - 1)) % NumModules) + 1
HookIDOf(g, h) == [ModuleCode |-> ModuleOf(g, h), HookImplCode |-> 10 * g + h]

\* executionCtx.getModuleContext: the context the execution context holds
\* for a module; nothing writes it while a stage runs.
getModuleContext(m) == <<"m1", "m2">>[m]

\* hookstage.HookResult[P]
HookResult(rej, nbr, cs, mctx) ==
  [Reject |-> rej, NbrCode |-> nbr, ChangeSet |-> cs, Message |-> "msg",
   Errors |-> <<>>, Warnings |-> <<>>, DebugMessages |-> <<>>,
   AnalyticsTags |-> "tags", ModuleContext |-> mctx]

\* hookstage.HookResult[P]{}: the zero result of a synthesized timeout.
ZeroResult ==
  [Reject |-> FALSE, NbrCode |-> 0, ChangeSet |-> NilChangeSet, Message |-> "",
   Errors |-> <<>>, Warnings |-> <<>>, DebugMessages |-> <<>>,
   AnalyticsTags |-> "", ModuleContext |-> "nil"]

\* hookResponse[P]
HookResponse(err, t, id, res) ==
  [Err |-> err, ExecutionTime |-> t, HookID |-> id, Result |-> res]

\* *RejectError: <<>> is nil, <<e>> points to e.
NoRejectErr == <<>>
RejectError(nbr, hook, stg) == <<[NBR |-> nbr, Hook |-> hook, Stage |-> stg]>>

\* ------------------------------------------------------ response reducer

\* handleHookError without the switch on the type of the error.
handleHookErrorUntyped(hr, hookOutcome) ==
  IF hr.Err = NoErr THEN hookOutcome
  ELSE [hookOutcome EXCEPT !.Errors = Append(@, hr.Err),
                           !.Status = StatusExecutionFailure]

\* handleHookError: records the error and sets the status by its type.
handleHookError(hr, hookOutcome) ==
  IF hr.Err = NoErr THEN hookOutcome
  ELSE [hookOutcome EXCEPT
          !.Errors = Append(@, hr.Err),
          !.Status = CASE hr.Err = TimeoutError -> StatusTimeout
                       [] hr.Err = FailureError -> StatusFailure
                       [] OTHER -> StatusExecutionFailure]

\* handleHookReject building the RejectError without the NbrCode.
handleHookRejectNoNbr(stg, hr, hookOutcome) ==
  IF ~hr.Result.Reject THEN <<hookOutcome, NoRejectErr>>
  ELSE IF ~IsRejectable(stg)
    THEN <<[hookOutcome EXCEPT !.Status = StatusExecutionFailure,
                               !.Errors = Append(@, "reject_not_supported")],
           NoRejectErr>>
    ELSE <<[hookOutcome EXCEPT !.Action = ActionReject,
                               !.Errors = Append(@, "rejected")],
           RejectError(0, hr.HookID, stg)>>

\* handleHookReject: <<outcome, rejectErr>>.
handleHookReject(stg, hr, hookOutcome) ==
  IF ~hr.Result.Reject THEN <<hookOutcome, NoRejectErr>>
  ELSE IF ~IsRejectable(stg)
    THEN <<[hookOutcome EXCEPT !.Status = StatusExecutionFailure,
                               !.Errors = Append(@, "reject_not_supported")],
           NoRejectErr>>
    ELSE <<[hookOutcome EXCEPT !.Action = ActionReject,
                               !.Errors = Append(@, "rejected")],
           RejectError(hr.Result.NbrCode, hr.HookID, stg)>>

\* The loop turn of handleHookMutations keeping what a failed Apply returned.
MutStepKeepsFailed(st, mut) ==
  LET r == Apply(mut, st[1]) IN
  IF r.err
    THEN <<r.p, [st[2] EXCEPT !.Warnings = Append(@, "mutation_failed")]>>
    ELSE <<r.p, [st[2] EXCEPT !.DebugMessages = Append(@, mut)]>>

\* One turn of the loop of handleHookMutations over <<payload, outcome>>.
MutStep(st, mut) ==
  LET r == Apply(mut, st[1]) IN
  IF r.err
    THEN <<st[1], [st[2] EXCEPT !.Warnings = Append(@, "mutation_failed")]>>
    ELSE <<r.p, [st[2] EXCEPT !.DebugMessages = Append(@, mut)]>>

RECURSIVE MutLoop(_, _)
MutLoop(st, muts) ==
  IF muts = <<>> THEN st ELSE MutLoop(MutStep(st, Head(muts)), Tail(muts))

\* The test of handleHookMutations for "nothing to apply".
mutSkips(hr) ==
  ~hr.Result.ChangeSet.present \/ Len(hr.Result.ChangeSet.muts) = 0

\* handleHookMutations reporting ActionUpdate only when the payload changed.
handleHookMutationsUpdateOnChange(p, hr, hookOutcome) ==
  LET out == MutLoop(<<p, hookOutcome>>, hr.Result.ChangeSet.muts) IN
  <<out[1], [out[2] EXCEPT !.Action =
                IF out[1] = p THEN ActionNone ELSE ActionUpdate]>>

\* handleHookMutations: <<payload, outcome>>.
handleHookMutations(p, hr, hookOutcome) ==
  IF mutSkips(hr)
    THEN <<p, [hookOutcome EXCEPT !.Action = ActionNone]>>
    ELSE MutLoop(<<p, [hookOutcome EXCEPT !.Action = ActionUpdate]>>,
                 hr.Result.ChangeSet.muts)

\* The Action a HookOutcome literal starts with: the field is left unset,
\* which the outcome records read as "no action".
ActionUnset == ActionNone

\* The HookOutcome literal handleHookResponse starts from.
NewHookOutcome(hr) ==
  [Status |-> StatusSuccess, Action |-> ActionUnset, HookID |-> hr.HookID,
   Message |-> hr.Result.Message, Errors |-> hr.Result.Errors,
   Warnings |-> hr.Result.Warnings, DebugMessages |-> hr.Result.DebugMessages,
   AnalyticsTags |-> hr.Result.AnalyticsTags, ExecutionTime |-> hr.ExecutionTime]

\* handleHookResponse testing Reject before Err.
handleHookResponseRejectFirst(stg, p, hr) ==
  LET o == NewHookOutcome(hr) IN
  IF hr.Result.Reject
    THEN LET rj == handleHookReject(stg, hr, o) IN
         [payload |-> p, outcome |-> rj[1], rejectErr |-> rj[2]]
  ELSE IF hr.Err # NoErr
    THEN [payload |-> p, outcome |-> handleHookError(hr, o),
          rejectErr |-> NoRejectErr]
  ELSE LET mu == handleHookMutations(p, hr, o) IN
         [payload |-> mu[1], outcome |-> mu[2], rejectErr |-> NoRejectErr]

\* handleHookResponse: [payload, outcome, rejectErr].
handleHookResponse(stg, p, hr) ==
  LET o == NewHookOutcome(hr) IN
  IF hr.Err # NoErr
    THEN [payload |-> p, outcome |-> handleHookError(hr, o),
          rejectErr |-> NoRejectErr]
  ELSE IF hr.Result.Reject
    THEN LET rj == handleHookReject(stg, hr, o) IN
         [payload |-> p, outcome |-> rj[1], rejectErr |-> rj[2]]
  ELSE LET mu == handleHookMutations(p, hr, o) IN
         [payload |-> mu[1], outcome |-> mu[2], rejectErr |-> NoRejectErr]

\* The running maximum of handleHookResponses keeping the latest time.
MaxKeepsLatest(a, b) == b

\* Lines 147-149 of handleHookResponses: the larger of the group's time so
\* far and the time of the response.
Max(a, b) == IF a > b THEN a ELSE b

\* handleHookResponses keeping the module context of the responses without
\* error only.
FoldStepCtxOnSuccess(stg, acc, r) ==
  LET h == handleHookResponse(stg, acc.payload, r) IN
  [outcome |-> [ExecutionTimeMillis |->
                  Max(acc.outcome.ExecutionTimeMillis, r.ExecutionTime),
                InvocationResults |->
                  Append(acc.outcome.InvocationResults, h.outcome)],
   payload |-> h.payload,
   ctx |-> IF r.Err = NoErr
             THEN [acc.ctx EXCEPT ![r.HookID.ModuleCode] = <<r.Result.ModuleContext>>]
             ELSE acc.ctx,
   rejectErr |-> h.rejectErr]

\* One turn of the loop of handleHookResponses over the running
\* [outcome, payload, ctx, rejectErr].
FoldStep(stg, acc, r) ==
  LET h == handleHookResponse(stg, acc.payload, r) IN
  [outcome |-> [ExecutionTimeMillis |->
                  Max(acc.outcome.ExecutionTimeMillis, r.ExecutionTime),
                InvocationResults |->
                  Append(acc.outcome.InvocationResults, h.outcome)],
   payload |-> h.payload,
   ctx |-> [acc.ctx EXCEPT ![r.HookID.ModuleCode] = <<r.Result.ModuleContext>>],
   rejectErr |-> h.rejectErr]

RECURSIVE FoldLoop(_, _, _)
FoldLoop(stg, acc, rs) ==
  IF rs = <<>> \/ acc.rejectErr # NoRejectErr THEN acc
  ELSE FoldLoop(stg, FoldStep(stg, acc, Head(rs)), Tail(rs))

\* groupModuleContext: module -> <<>> (no entry) or <<context>>.
EmptyGroupCtx == [m \in 1..NumModules |-> <<>>]

\* handleHookResponses: [outcome, payload, ctx, rejectErr].
handleHookResponses(stg, hrs, p) ==
  FoldLoop(stg,
           [outcome |-> [ExecutionTimeMillis |-> 0, InvocationResults |-> <<>>],
            payload |-> p, ctx |-> EmptyGroupCtx,
            rejectErr |-> NoRejectErr],
           hrs)

\* executeStage returning the payload of the rejecting group.
stagePayloadOfGroup(p, grp) == grp.payload

\* Lines 44-48 of executeStage: the payload carried on after a group.
stagePayload(p, grp) ==
  IF grp.rejectErr # NoRejectErr THEN p ELSE grp.payload

\* executeStage going on to the next group after a RejectError.
stageContinuesAfterReject(pl, g, grp) == g < Len(pl)

\* The range loop of executeStage goes on after group g of plan pl.
stageContinues(pl, g, grp) == grp.rejectErr = NoRejectErr /\ g < Len(pl)

\* collectHookResponses keeping the responses in the order of group.Hooks.
RECURSIVE collectInDeclaredOrder(_, _)
collectInDeclaredOrder(rs, r) ==
  IF rs = <<>> THEN <<r>>
  ELSE IF r.HookID.HookImplCode < Head(rs).HookID.HookImplCode
    THEN <<r>> \o rs
  ELSE <<Head(rs)>> \o collectInDeclaredOrder(Tail(rs), r)

\* Line 126 of collectHookResponses: the response goes to the end of the list.
collectAppend(rs, r) == Append(rs, r)

\* collectHookResponses reading on after a response that asks to reject.
collectBreaksNever(r) == FALSE

\* collectHookResponses breaking on a response with an error as well.
collectBreaksOnError(r) == r.Result.Reject \/ r.Err # NoErr

\* The test of collectHookResponses that closes rejected and breaks.
collectBreaks(r) == r.Result.Reject

\* ------------------------------------------------------------------ state
VARIABLES
  stage,          \* executionCtx.stage
  plan,           \* the plan: the number of hooks of each group
  gi,             \* the group the range loop of executeStage is at
  stagePc,        \* where the calling goroutine is
  payload,        \* payload of executeStage
  stageOutcome,   \* stageOutcome of executeStage
  stageModuleCtx, \* stageModuleCtx.groupCtx of executeStage
  stageRejectErr, \* the *RejectError executeStage returns
  hookResponses,  \* hookResponses of the running collectHookResponses
  taskPc,         \* where the goroutine of executeHook is, per group and hook
  handler,        \* where the goroutine calling hookHandler is
  hookRespCh,     \* the one-slot channel hookRespCh of each executeHook
  timer,          \* the channel of time.After(timeout) of each executeHook
  pending,        \* the response an executeHook is sending on resp
  rejected,       \* per group: the channel rejected is closed
  respClosed,     \* per group: the channel resp is closed
  hist,           \* history: what each group was given and returned
  race,           \* history: the handler calls and the select branch taken
  unit            \* a reducer function run on its own (MutSpec, RespSpec)

vars == <<stage, plan, gi, stagePc, payload, stageOutcome, stageModuleCtx,
          stageRejectErr, hookResponses, taskPc, handler, hookRespCh, timer,
          pending, rejected, respClosed, hist, race, unit>>

stageVars == <<stage, plan, gi, stagePc, payload, stageOutcome, stageModuleCtx,
               stageRejectErr, hookResponses, hist>>

Groups == 1..MaxGroups
Hooks == 1..MaxHooks
HooksOf(g) == IF g \in 1..Len(plan) THEN 1..plan[g] ELSE {}

\* What hookHandler returns in a stage run: an update, an update whose
\* first mutation fails, a reject, or an error that also asks to reject
\* (every other shape of response goes through RespSpec).
HandlerReturns ==
  { [Result |-> HookResult(FALSE, 0, ChangeSetOf(<<"dbl">>), "c2"), Err |-> NoErr],
    [Result |-> HookResult(FALSE, 0, ChangeSetOf(<<"bad", "inc">>), "c3"),
     Err |-> NoErr],
    [Result |-> HookResult(TRUE, 3, ChangeSetOf(<<"inc">>), "c4"), Err |-> NoErr],
    [Result |-> HookResult(TRUE, 5, ChangeSetOf(<<"inc">>), "c6"),
     Err |-> OtherError] }

RECURSIVE SumSeq(_)
SumSeq(q) == IF q = <<>> THEN 0 ELSE Head(q) + SumSeq(Tail(q))

Plans ==
  { pl \in UNION { [1..n -> 0..MaxHooks] : n \in 0..MaxGroups } :
      SumSeq(pl) <= MaxPlanHooks }

IdleUnit == [phase |-> "idle"]

Init ==
  /\ stage \in Stages
  /\ plan \in Plans
  /\ gi = 1
  /\ stagePc = IF plan = <<>> THEN "returned" ELSE "launch"
  /\ payload = InitPayload
  /\ stageOutcome = [ExecutionTimeMillis |-> 0, Groups |-> <<>>]
  /\ stageModuleCtx = <<>>
  /\ stageRejectErr = NoRejectErr
  /\ hookResponses = <<>>
  /\ taskPc = [g \in Groups |-> [h \in Hooks |-> "none"]]
  /\ handler = [g \in Groups |-> [h \in Hooks |-> "idle"]]
  /\ hookRespCh = [g \in Groups |-> [h \in Hooks |-> <<>>]]
  /\ timer = [g \in Groups |-> [h \in Hooks |-> "off"]]
  /\ pending = [g \in Groups |-> [h \in Hooks |-> <<>>]]
  /\ rejected = [g \in Groups |-> FALSE]
  /\ respClosed = [g \in Groups |-> FALSE]
  /\ hist = [g \in Groups |-> [state |-> "none"]]
  /\ race = [g \in Groups |-> [h \in Hooks |->
               [branch |-> "none", calls |-> 0, rank |-> 0, payloadArg |-> <<>>,
                mCtx |-> <<>>, early |-> TRUE]]]
  /\ unit = IdleUnit

\* ------------------------------------------------------------ executeGroup

\* executeGroup is called with the payload of executeStage and makes its
\* channels; a group without hooks goes straight on to start the goroutine
\* that closes resp and to collectHookResponses.
LaunchGroup ==
  /\ stagePc = "launch"
  /\ stagePc' = IF plan[gi] = 0 THEN "collect" ELSE "spawn"
  /\ hookResponses' = <<>>
  /\ hist' = [hist EXCEPT ![gi] = [state |-> "running", payloadIn |-> payload]]
  /\ UNCHANGED <<stage, plan, gi, payload, stageOutcome, stageModuleCtx,
                 stageRejectErr, taskPc, handler, hookRespCh, timer, pending,
                 rejected, respClosed, race, unit>>

\* The hooks of group g whose goroutine the loop of executeGroup has started.
Launched(g) == { h \in HooksOf(g) : taskPc[g][h] # "none" }

\* One turn of the loop of executeGroup over group.Hooks: looks up the
\* module context of the hook, then starts the goroutine of executeHook;
\* after the last turn the goroutine that closes resp is started and
\* collectHookResponses is called.
LaunchHook(h) ==
  /\ stagePc = "spawn"
  /\ h \in HooksOf(gi)
  /\ h = Cardinality(Launched(gi)) + 1
  /\ race' = [race EXCEPT
                ![gi][h].mCtx = <<getModuleContext(ModuleOf(gi, h))>>,
                ![gi][h].early =
                   \A k \in HooksOf(gi) : taskPc[gi][k] \in {"none", "start"}]
  /\ taskPc' = [taskPc EXCEPT ![gi][h] = "start"]
  /\ stagePc' = IF h = plan[gi] THEN "collect" ELSE "spawn"
  /\ UNCHANGED <<stage, plan, gi, payload, stageOutcome, stageModuleCtx,
                 stageRejectErr, hookResponses, hist, handler, hookRespCh,
                 timer, pending, rejected, respClosed, unit>>

\* executeHook calling hookHandler with the payload executeStage holds at
\* that moment.
TaskStartStagePayload(g, h) ==
  /\ taskPc[g][h] = "start"
  /\ taskPc' = [taskPc EXCEPT ![g][h] = "select"]
  /\ handler' = [handler EXCEPT ![g][h] = "running"]
  /\ timer' = [timer EXCEPT ![g][h] = "armed"]
  /\ race' = [race EXCEPT ![g][h].calls = @ + 1,
                          ![g][h].payloadArg = <<payload>>]
  /\ UNCHANGED <<stageVars, hookRespCh, pending, rejected, respClosed, unit>>

\* executeHook up to its select: makes hookRespCh, starts the goroutine
\* that calls hookHandler with the payload executeGroup was called with,
\* and arms time.After(timeout).
TaskStart(g, h) ==
  /\ taskPc[g][h] = "start"
  /\ taskPc' = [taskPc EXCEPT ![g][h] = "select"]
  /\ handler' = [handler EXCEPT ![g][h] = "running"]
  /\ timer' = [timer EXCEPT ![g][h] = "armed"]
  /\ race' = [race EXCEPT ![g][h].calls = @ + 1,
                          ![g][h].payloadArg = <<hist[g].payloadIn>>]
  /\ UNCHANGED <<stageVars, hookRespCh, pending, rejected, respClosed, unit>>

\* A result put in hookRespCh after executeHook has left its select: the
\* channel has no reader left, whatever the result is.
Unread == [Result |-> "unread", Err |-> "unread"]

\* make(chan hookResponse[P], 1): the slots of hookRespCh.
HookRespChCap == 1

\* The state of the goroutine of hookHandler once the handler has returned
\* and its result is in hookRespCh: "late" after the timer has fired or
\* the select was left, "aborted" after rejected was closed, else "returned".
HandlerState(g, h) ==
  IF taskPc[g][h] # "select" \/ timer[g][h] # "armed" THEN "late"
  ELSE IF rejected[g] THEN "aborted"
  ELSE "returned"

\* hookRespCh made without a slot: the send of the handler's goroutine
\* waits for executeHook to be receiving in its select.
HandlerReturnUnbuffered(g, h) ==
  /\ handler[g][h] = "running"
  /\ taskPc[g][h] = "select"
  /\ \E r \in HandlerReturns :
       hookRespCh' = [hookRespCh EXCEPT ![g][h] = <<r>>]
  /\ handler' = [handler EXCEPT ![g][h] = HandlerState(g, h)]
  /\ UNCHANGED <<stageVars, taskPc, timer, pending, rejected, respClosed,
                 race, unit>>

\* hookHandler returns and its goroutine puts the result in hookRespCh,
\* which takes it when it has a free slot; the goroutine then ends.
HandlerReturn(g, h) ==
  /\ handler[g][h] = "running"
  /\ Len(hookRespCh[g][h]) < HookRespChCap
  /\ \E r \in HandlerReturns :
       hookRespCh' = [hookRespCh EXCEPT ![g][h] =
                        IF taskPc[g][h] = "select" THEN <<r>> ELSE <<Unread>>]
  /\ handler' = [handler EXCEPT ![g][h] = HandlerState(g, h)]
  /\ UNCHANGED <<stageVars, taskPc, timer, pending, rejected, respClosed,
                 race, unit>>

\* The timer of time.After(timeout) fires. Once executeHook has left its
\* select nobody reads the timer or hookRespCh any more: the timer is then
\* "off" and a result left in hookRespCh is Unread.
TimerFire(g, h) ==
  /\ timer[g][h] = "armed"
  /\ timer' = [timer EXCEPT ![g][h] = "fired"]
  /\ UNCHANGED <<stageVars, taskPc, handler, hookRespCh, pending, rejected,
                 respClosed, race, unit>>

LeftUnread(g, h) == IF hookRespCh[g][h] = <<>> THEN <<>> ELSE <<Unread>>

\* time.Since(startTime) when the select of executeHook is left.
Elapsed(g, h) ==
  IF timer[g][h] = "fired" THEN {Timeout} ELSE 1..(Timeout - 1)

\* case res := <-hookRespCh
TakeResult(g, h) ==
  /\ taskPc[g][h] = "select"
  /\ hookRespCh[g][h] # <<>>
  /\ \E t \in Elapsed(g, h) :
       pending' = [pending EXCEPT ![g][h] =
                     <<HookResponse(hookRespCh[g][h][1].Err, t, HookIDOf(g, h),
                                    hookRespCh[g][h][1].Result)>>]
  /\ hookRespCh' = [hookRespCh EXCEPT ![g][h] = <<>>]
  /\ timer' = [timer EXCEPT ![g][h] = "off"]
  /\ taskPc' = [taskPc EXCEPT ![g][h] = "send"]
  /\ race' = [race EXCEPT ![g][h].branch = "result"]
  /\ UNCHANGED <<stageVars, handler, rejected, respClosed, unit>>

\* The select of executeHook without its timeout case.
NoTimeoutCase(g, h) == FALSE /\ UNCHANGED vars

\* The timeout case of executeHook calling the hook again.
TakeTimeoutRetries(g, h) ==
  /\ taskPc[g][h] = "select"
  /\ timer[g][h] = "fired"
  /\ hookRespCh' = [hookRespCh EXCEPT ![g][h] = <<>>]
  /\ timer' = [timer EXCEPT ![g][h] = "off"]
  /\ taskPc' = [taskPc EXCEPT ![g][h] = "start"]
  /\ race' = [race EXCEPT ![g][h].branch = "timeout"]
  /\ UNCHANGED <<stageVars, handler, pending, rejected, respClosed, unit>>

\* case <-time.After(timeout)
TakeTimeout(g, h) ==
  /\ taskPc[g][h] = "select"
  /\ timer[g][h] = "fired"
  /\ pending' = [pending EXCEPT ![g][h] =
                   <<HookResponse(TimeoutError, Timeout, HookIDOf(g, h),
                                  ZeroResult)>>]
  /\ hookRespCh' = [hookRespCh EXCEPT ![g][h] = LeftUnread(g, h)]
  /\ timer' = [timer EXCEPT ![g][h] = "off"]
  /\ taskPc' = [taskPc EXCEPT ![g][h] = "send"]
  /\ race' = [race EXCEPT ![g][h].branch = "timeout"]
  /\ UNCHANGED <<stageVars, handler, rejected, respClosed, unit>>

\* case <-rejected
TakeRejected(g, h) ==
  /\ taskPc[g][h] = "select"
  /\ rejected[g]
  /\ hookRespCh' = [hookRespCh EXCEPT ![g][h] = LeftUnread(g, h)]
  /\ timer' = [timer EXCEPT ![g][h] = "off"]
  /\ taskPc' = [taskPc EXCEPT ![g][h] = "done"]
  /\ race' = [race EXCEPT ![g][h].branch = "abort"]
  /\ UNCHANGED <<stageVars, handler, pending, rejected, respClosed, unit>>

\* The hooks of group g whose executeHook has sent its response and returned.
Delivered(g) ==
  { h \in HooksOf(g) :
      taskPc[g][h] = "done" /\ race[g][h].branch \in {"result", "timeout"} }

\* collectHookResponses closing rejected without leaving its loop.
ReceiveNoBreak(g, h) ==
  /\ stagePc = "collect"
  /\ g = gi
  /\ taskPc[g][h] = "send"
  /\ hookResponses' = collectAppend(hookResponses, pending[g][h][1])
  /\ pending' = [pending EXCEPT ![g][h] = <<>>]
  /\ taskPc' = [taskPc EXCEPT ![g][h] = "done"]
  /\ race' = [race EXCEPT ![g][h].rank = Cardinality(Delivered(g)) + 1]
  /\ rejected' = [rejected EXCEPT ![g] = @ \/ collectBreaks(pending[g][h][1])]
  /\ UNCHANGED <<stage, plan, gi, stagePc, payload, stageOutcome,
                 stageModuleCtx, stageRejectErr, hist, handler, hookRespCh,
                 timer, respClosed, unit>>

\* One turn of the loop of collectHookResponses: resp is unbuffered, so the
\* send of executeHook and the receive happen together; executeHook then
\* returns (wg.Done), and the collector closes rejected and breaks on a
\* response that asks to reject.
Receive(g, h) ==
  /\ stagePc = "collect"
  /\ g = gi
  /\ taskPc[g][h] = "send"
  /\ hookResponses' = collectAppend(hookResponses, pending[g][h][1])
  /\ pending' = [pending EXCEPT ![g][h] = <<>>]
  /\ taskPc' = [taskPc EXCEPT ![g][h] = "done"]
  /\ race' = [race EXCEPT ![g][h].rank = Cardinality(Delivered(g)) + 1]
  /\ IF collectBreaks(pending[g][h][1])
       THEN /\ rejected' = [rejected EXCEPT ![g] = TRUE]
            /\ stagePc' = "reduce"
       ELSE UNCHANGED <<rejected, stagePc>>
  /\ UNCHANGED <<stage, plan, gi, payload, stageOutcome, stageModuleCtx,
                 stageRejectErr, hist, handler, hookRespCh, timer, respClosed,
                 unit>>

\* The closing goroutine closing resp without waiting for the hook tasks.
CloseRespEarly(g) ==
  /\ hist[g].state # "none"
  /\ ~respClosed[g]
  /\ respClosed' = [respClosed EXCEPT ![g] = TRUE]
  /\ UNCHANGED <<stageVars, taskPc, handler, hookRespCh, timer, pending,
                 rejected, race, unit>>

\* wg.Wait() has returned in the closing goroutine: close(resp).
CloseResp(g) ==
  /\ hist[g].state # "none"
  /\ ~respClosed[g]
  /\ \A h \in HooksOf(g) : taskPc[g][h] = "done"
  /\ respClosed' = [respClosed EXCEPT ![g] = TRUE]
  /\ UNCHANGED <<stageVars, taskPc, handler, hookRespCh, timer, pending,
                 rejected, race, unit>>

\* The range over resp ends because resp is closed.
CollectEnd ==
  /\ stagePc = "collect"
  /\ respClosed[gi]
  /\ stagePc' = "reduce"
  /\ UNCHANGED <<stage, plan, gi, payload, stageOutcome, stageModuleCtx,
                 stageRejectErr, hookResponses, hist, taskPc, handler,
                 hookRespCh, timer, pending, rejected, respClosed, race, unit>>

\* handleHookResponses on what was collected, and the rest of the turn of
\* the loop of executeStage.
Reduce ==
  /\ stagePc = "reduce"
  /\ LET grp == handleHookResponses(stage, hookResponses, payload) IN
       /\ stageOutcome' =
            [ExecutionTimeMillis |->
               stageOutcome.ExecutionTimeMillis + grp.outcome.ExecutionTimeMillis,
             Groups |-> Append(stageOutcome.Groups, grp.outcome)]
       /\ stageModuleCtx' = Append(stageModuleCtx, grp.ctx)
       /\ stageRejectErr' = grp.rejectErr
       /\ payload' = stagePayload(payload, grp)
       /\ hist' = [hist EXCEPT ![gi] =
                     [state |-> "folded", payloadIn |-> payload,
                      responses |-> hookResponses, result |-> grp]]
       /\ IF stageContinues(plan, gi, grp)
            THEN gi' = gi + 1 /\ stagePc' = "launch"
            ELSE gi' = gi /\ stagePc' = "returned"
  /\ UNCHANGED <<stage, plan, hookResponses, taskPc, handler, hookRespCh,
                 timer, pending, rejected, respClosed, race, unit>>

Next ==
  \/ LaunchGroup
  \/ \E h \in Hooks : LaunchHook(h)
  \/ \E g \in Groups, h \in Hooks : TaskStart(g, h)
  \/ \E g \in Groups, h \in Hooks : HandlerReturn(g, h)
  \/ \E g \in Groups, h \in Hooks : TimerFire(g, h)
  \/ \E g \in Groups, h \in Hooks : TakeResult(g, h)
  \/ \E g \in Groups, h \in Hooks : TakeTimeout(g, h)
  \/ \E g \in Groups, h \in Hooks : TakeRejected(g, h)
  \/ \E g \in Groups, h \in Hooks : Receive(g, h)
  \/ \E g \in Groups : CloseResp(g)
  \/ CollectEnd
  \/ Reduce

Spec == Init /\ [][Next]_vars

\* The Go scheduler runs every goroutine that can take a step, and a timer
\* that is armed fires; nothing makes hookHandler return.
Fairness ==
  /\ WF_vars(LaunchGroup)
  /\ \A h \in Hooks : WF_vars(LaunchHook(h))
  /\ WF_vars(CollectEnd)
  /\ WF_vars(Reduce)
  /\ \A g \in Groups : WF_vars(CloseResp(g))
  /\ \A g \in Groups, h \in Hooks :
       /\ WF_vars(TaskStart(g, h))
       /\ WF_vars(TimerFire(g, h))
       /\ WF_vars(TakeResult(g, h) \/ TakeTimeout(g, h) \/ TakeRejected(g, h))
       /\ WF_vars(Receive(g, h))

\* The fair runs are followed on the plans of at most MaxFairPlanHooks hooks.
MaxFairPlanHooks == 2
FairInit == Init /\ SumSeq(plan) <= MaxFairPlanHooks

FairSpec == FairInit /\ [][Next]_vars /\ Fairness


\* --------------------------------------- the reducer functions on their own
MaxPayload == 2     \* largest payload drawn for a reducer function
MaxRespMuts == 2    \* longest ChangeSet drawn for handleHookResponse

RECURSIVE SeqsUpTo(_, _)
SeqsUpTo(S, n) ==
  IF n = 0 THEN {<<>>}
  ELSE LET shorter == SeqsUpTo(S, n - 1) IN
       shorter \cup { Append(q, x) : q \in shorter, x \in S }

ChangeSets(n) ==
  {NilChangeSet} \cup { ChangeSetOf(ms) : ms \in SeqsUpTo(MutationKinds, n) }

\* The variables of a stage run while a reducer function runs on its own.
NoStageRun ==
  /\ stage \in Stages
  /\ plan = <<>>
  /\ gi = 1
  /\ stagePc = "unit"
  /\ payload = InitPayload
  /\ stageOutcome = [ExecutionTimeMillis |-> 0, Groups |-> <<>>]
  /\ stageModuleCtx = <<>>
  /\ stageRejectErr = NoRejectErr
  /\ hookResponses = <<>>
  /\ taskPc = [g \in Groups |-> [h \in Hooks |-> "none"]]
  /\ handler = [g \in Groups |-> [h \in Hooks |-> "idle"]]
  /\ hookRespCh = [g \in Groups |-> [h \in Hooks |-> <<>>]]
  /\ timer = [g \in Groups |-> [h \in Hooks |-> "off"]]
  /\ pending = [g \in Groups |-> [h \in Hooks |-> <<>>]]
  /\ rejected = [g \in Groups |-> FALSE]
  /\ respClosed = [g \in Groups |-> FALSE]
  /\ hist = [g \in Groups |-> [state |-> "none"]]
  /\ race = [g \in Groups |-> [h \in Hooks |->
               [branch |-> "none", calls |-> 0, rank |-> 0, payloadArg |-> <<>>,
                mCtx |-> <<>>, early |-> TRUE]]]

stageRunVars == <<stage, plan, gi, stagePc, payload, stageOutcome,
                  stageModuleCtx, stageRejectErr, hookResponses, taskPc,
                  handler, hookRespCh, timer, pending, rejected, respClosed,
                  hist, race>>

\* handleHookMutations, one statement at a time, on any payload and
\* ChangeSet of a response without error or reject.
MutInit ==
  /\ NoStageRun
  /\ \E p0 \in 0..MaxPayload, cs \in ChangeSets(MaxMuts) :
       LET hr == HookResponse(NoErr, 1, HookIDOf(1, 1),
                              HookResult(FALSE, 0, cs, "c")) IN
       unit = [phase |-> "mut_start", p0 |-> p0, hr |-> hr, i |-> 0,
               st |-> <<p0, NewHookOutcome(hr)>>, applied |-> <<>>]

\* Lines 242-247: the early return, or Action = ActionUpdate.
MutBegin ==
  /\ unit.phase = "mut_start"
  /\ unit' = IF mutSkips(unit.hr)
       THEN [unit EXCEPT !.phase = "mut_done",
                         !.st = <<@[1], [@[2] EXCEPT !.Action = ActionNone]>>]
       ELSE [unit EXCEPT !.phase = "mut_loop", !.i = 1,
                         !.st = <<@[1], [@[2] EXCEPT !.Action = ActionUpdate]>>]
  /\ UNCHANGED stageRunVars

\* Lines 248-267: one turn of the loop; applied records the mutations
\* whose Apply returned no error.
MutTurn ==
  /\ unit.phase = "mut_loop"
  /\ LET m == unit.hr.Result.ChangeSet.muts[unit.i] IN
       unit' = [unit EXCEPT
                  !.st = MutStep(@, m),
                  !.applied = IF Apply(m, unit.st[1]).err THEN @ ELSE Append(@, m),
                  !.i = @ + 1,
                  !.phase = IF unit.i = Len(unit.hr.Result.ChangeSet.muts)
                              THEN "mut_done" ELSE "mut_loop"]
  /\ UNCHANGED stageRunVars

MutNext == MutBegin \/ MutTurn

MutSpec == MutInit /\ [][MutNext]_vars

\* handleHookResponse on any payload and any response.
RespInit ==
  /\ NoStageRun
  /\ \E p0 \in 0..MaxPayload, e \in Errs, rj \in BOOLEAN,
        cs \in ChangeSets(MaxRespMuts) :
       unit = [phase |-> "resp", p0 |-> p0,
               hr |-> HookResponse(e, 1, HookIDOf(1, 1),
                                   HookResult(rj, IF rj THEN 3 ELSE 0, cs, "c")),
               out |-> <<>>]

RespHandle ==
  /\ unit.phase = "resp"
  /\ unit' = [unit EXCEPT !.phase = "resp_done",
                          !.out = <<handleHookResponse(stage, unit.p0, unit.hr)>>]
  /\ UNCHANGED stageRunVars

RespNext == RespHandle

RespSpec == RespInit /\ [][RespNext]_vars

\* ------------------------------------------------------------ properties
Folded(g) == hist[g].state = "folded"
Responses(g) == hist[g].responses
Outcomes(g) == hist[g].result.outcome.InvocationResults
NoRejectAsked(g) ==
  \A i \in 1..Len(Responses(g)) : ~Responses(g)[i].Result.Reject
OutcomesOf(g, h) ==
  { i \in 1..Len(Outcomes(g)) : Outcomes(g)[i].HookID = HookIDOf(g, h) }

\* The payload the reducer is expected to produce: the mutations of the
\* responses without error or reject, in order, skipping those that fail.
RECURSIVE ApplyAll(_, _)
ApplyAll(muts, p) ==
  IF muts = <<>> THEN p
  ELSE ApplyAll(Tail(muts),
                IF Apply(Head(muts), p).err THEN p ELSE Apply(Head(muts), p).p)

RECURSIVE ExpectedPayload(_, _)
ExpectedPayload(rs, p) ==
  IF rs = <<>> THEN p
  ELSE ExpectedPayload(Tail(rs),
         IF Head(rs).Err = NoErr /\ ~Head(rs).Result.Reject
           THEN ApplyAll(Head(rs).Result.ChangeSet.muts, p) ELSE p)

RECURSIVE PayloadAfter(_)
PayloadAfter(k) ==
  IF k = 0 THEN InitPayload
  ELSE ExpectedPayload(Responses(k), PayloadAfter(k - 1))

\* C1: once the collector has closed rejected, every hook task of that
\* group eventually returns (having delivered or abandoned its response):
\* none stays blocked on its send to resp.
C1_AbortedTasksTerminate ==
  \A g \in Groups :
    rejected[g] ~> (\A h \in HooksOf(g) : taskPc[g][h] = "done")

\* C2: when group gi yields a RejectError, executeStage returns the payload
\* that was passed to that group: the mutations of the groups before it and
\* none of the rejecting group.
C2_RejectReturnsGroupInput ==
  (stagePc = "returned" /\ stageRejectErr # NoRejectErr) =>
     /\ payload = hist[gi].payloadIn
     /\ payload = PayloadAfter(gi - 1)

C2_Witness ==
  /\ stagePc = "returned" /\ stageRejectErr # NoRejectErr
  /\ gi = 2
  /\ payload # InitPayload
  /\ hist[2].result.payload # payload

\* C3: groups start in plan order, each after the group before it was
\* folded; after a RejectError no hook of a later group is started or
\* called; stageOutcome.Groups are the outcomes of the groups run, in order.
C3_GroupsInPlanOrder ==
  /\ \A g \in Groups :
       (hist[g].state # "none" \/ \E h \in Hooks : taskPc[g][h] # "none") =>
          /\ g <= gi /\ g <= Len(plan)
          /\ \A k \in 1..(g - 1) : Folded(k)
  /\ stageRejectErr # NoRejectErr =>
       /\ stagePc = "returned"
       /\ Len(stageOutcome.Groups) = gi
       /\ \A g \in Groups, h \in Hooks :
            g > gi => taskPc[g][h] = "none" /\ race[g][h].calls = 0
  /\ Len(stageOutcome.Groups) = Cardinality({ g \in Groups : Folded(g) })
  /\ \A k \in 1..Len(stageOutcome.Groups) :
       /\ Folded(k)
       /\ stageOutcome.Groups[k] = hist[k].result.outcome
       /\ \A i \in 1..Len(stageOutcome.Groups[k].InvocationResults) :
            stageOutcome.Groups[k].InvocationResults[i].HookID.HookImplCode
              \div 10 = k

C3_Witness ==
  /\ stagePc = "returned" /\ stageRejectErr # NoRejectErr
  /\ gi = 1 /\ Len(plan) = 2 /\ plan[2] > 0
  /\ Len(stageOutcome.Groups) = 1

\* C4 as stated: the GroupOutcome of every group run has exactly one
\* HookOutcome for every hook of the group.
C4_EveryHookHasOutcome ==
  \A g \in Groups : Folded(g) =>
    \A h \in HooksOf(g) : Cardinality(OutcomesOf(g, h)) = 1

\* C4 amended: when no collected response of the group has Reject = true,
\* the GroupOutcome has exactly one HookOutcome per hook of the group
\* (timed out or not), N in all for N hooks.
C4_EveryHookHasOutcomeUnlessReject ==
  \A g \in Groups : (Folded(g) /\ NoRejectAsked(g)) =>
    /\ Len(Outcomes(g)) = plan[g]
    /\ \A h \in HooksOf(g) : Cardinality(OutcomesOf(g, h)) = 1

C4_Witness ==
  \E g \in Groups :
    /\ Folded(g) /\ NoRejectAsked(g) /\ plan[g] = 2
    /\ \E i \in 1..Len(Outcomes(g)) : Outcomes(g)[i].Status = StatusTimeout

\* C5: on a stage that is not rejectable a response with Reject = true (and
\* no error) gives ExecutionFailure with an error message and no
\* RejectError, leaves the payload alone, and every other hook of the group
\* and every later group still runs and is recorded.
C5_UnsupportedRejectIsLocal ==
  ~IsRejectable(stage) =>
    /\ stageRejectErr = NoRejectErr
    /\ stagePc = "returned" => \A g \in 1..Len(plan) : Folded(g)
    /\ \A g \in Groups : Folded(g) =>
         /\ hist[g].result.payload =
              ExpectedPayload(Responses(g), hist[g].payloadIn)
         /\ \A i \in 1..Len(Responses(g)) :
              (Responses(g)[i].Err = NoErr /\ Responses(g)[i].Result.Reject) =>
                 /\ Outcomes(g)[i].Status = StatusExecutionFailure
                 /\ Outcomes(g)[i].Errors # <<>>
                 /\ \A h \in HooksOf(g) : Cardinality(OutcomesOf(g, h)) = 1

\* C6: on a rejectable stage a response with no error and Reject = true
\* gives Action = Reject with Status = Success, its ChangeSet is not
\* applied, and executeStage returns the RejectError of its NbrCode, its
\* HookID and the stage.
C6_HonoredReject ==
  IsRejectable(stage) =>
    \A g \in Groups : Folded(g) =>
      \A i \in 1..Len(Responses(g)) :
        (Responses(g)[i].Err = NoErr /\ Responses(g)[i].Result.Reject) =>
          /\ i = Len(Outcomes(g))
          /\ Outcomes(g)[i].Action = ActionReject
          /\ Outcomes(g)[i].Status = StatusSuccess
          /\ Outcomes(g)[i].HookID = Responses(g)[i].HookID
          /\ hist[g].result.payload =
               ExpectedPayload(Responses(g), hist[g].payloadIn)
          /\ g = gi /\ stagePc = "returned"
          /\ stageRejectErr = <<[NBR |-> Responses(g)[i].Result.NbrCode,
                                 Hook |-> Responses(g)[i].HookID,
                                 Stage |-> stage]>>

C6_Witness ==
  /\ IsRejectable(stage) /\ stagePc = "returned"
  /\ stageRejectErr # NoRejectErr
  /\ stageRejectErr[1].NBR = 3
  /\ Len(Responses(gi)) = 2
  /\ Responses(gi)[2].Result.ChangeSet.muts # <<>>

\* The hook's handler did not return within the timeout: it is still
\* running, or it returned after the timer had fired.
MissedDeadline(g, h) == handler[g][h] \in {"running", "late"}

TimedOutOutcome(g, h) ==
  /\ Cardinality(OutcomesOf(g, h)) = 1
  /\ \A i \in OutcomesOf(g, h) :
       /\ Outcomes(g)[i].Status = StatusTimeout
       /\ Outcomes(g)[i].Action = ActionNone

C8_StageReturns == <>(stagePc = "returned")

C8_Witness ==
  /\ stagePc = "returned"
  /\ Len(plan) > 0
  /\ \E g \in Groups, h \in Hooks : h \in HooksOf(g) /\ handler[g][h] = "running"

\* C9: a response with an error is classified by its error alone: Timeout,
\* Failure or ExecutionFailure by the error's type, the payload is returned
\* as given and there is no RejectError, whatever Reject says.
C9_ErrorBranchFirst ==
  (unit.phase = "resp_done" /\ unit.hr.Err # NoErr) =>
     /\ unit.out[1].outcome.Status =
          (CASE unit.hr.Err = TimeoutError -> StatusTimeout
             [] unit.hr.Err = FailureError -> StatusFailure
             [] OTHER -> StatusExecutionFailure)
     /\ unit.out[1].outcome.Action # ActionReject
     /\ unit.out[1].outcome.Action # ActionUpdate
     /\ unit.out[1].payload = unit.p0
     /\ unit.out[1].rejectErr = NoRejectErr

C9_Witness ==
  /\ unit.phase = "resp_done"
  /\ unit.hr.Err = FailureError
  /\ unit.hr.Result.Reject
  /\ IsRejectable(stage)
  /\ unit.hr.Result.ChangeSet.muts = <<"inc">>

RECURSIVE FoldApplied(_, _)
FoldApplied(ms, p) ==
  IF ms = <<>> THEN p ELSE FoldApplied(Tail(ms), Apply(Head(ms), p).p)

\* C10: handleHookMutations returns the fold, in list order, of the
\* mutations whose Apply succeeded; a failed one leaves the payload as it
\* was; one Warning per failure, one DebugMessage per success, and Status
\* stays Success.
C10_FoldOfApplied ==
  /\ unit.phase \in {"mut_loop", "mut_done"} =>
       /\ unit.st[1] = FoldApplied(unit.applied, unit.p0)
       /\ Len(unit.st[2].DebugMessages) = Len(unit.applied)
       /\ unit.st[2].Status = StatusSuccess
  /\ unit.phase = "mut_done" =>
       /\ Len(unit.st[2].Warnings) + Len(unit.applied)
            = Len(unit.hr.Result.ChangeSet.muts)
       /\ handleHookMutations(unit.p0, unit.hr, NewHookOutcome(unit.hr))
            = unit.st

C10_Witness ==
  /\ unit.phase = "mut_done"
  /\ unit.hr.Result.ChangeSet.muts = <<"inc", "bad", "dbl">>
  /\ unit.applied = <<"inc", "dbl">>
  /\ unit.st[1] = 2 * (unit.p0 + 1)
  /\ Len(unit.st[2].Warnings) = 1

AllFail(muts, p) == \A i \in 1..Len(muts) : Apply(muts[i], p).err

\* C11: for a response without error or reject, an absent or empty
\* ChangeSet leaves the payload alone with Action = None, and a ChangeSet
\* of at least one mutation gives Action = Update even when every mutation
\* fails and the payload is unchanged.
C11_ActionByChangeSet ==
  (unit.phase = "resp_done" /\ unit.hr.Err = NoErr /\ ~unit.hr.Result.Reject) =>
     LET cs == unit.hr.Result.ChangeSet
         out == unit.out[1] IN
     /\ out.outcome.Status = StatusSuccess
     /\ out.rejectErr = NoRejectErr
     /\ (~cs.present \/ cs.muts = <<>>) =>
           out.payload = unit.p0 /\ out.outcome.Action = ActionNone
     /\ (cs.present /\ cs.muts # <<>>) =>
           /\ out.outcome.Action = ActionUpdate
           /\ AllFail(cs.muts, unit.p0) => out.payload = unit.p0

C11_Witness ==
  /\ unit.phase = "resp_done"
  /\ unit.hr.Err = NoErr /\ ~unit.hr.Result.Reject
  /\ unit.hr.Result.ChangeSet.muts = <<"bad", "dec">>
  /\ unit.p0 = 0
  /\ unit.out[1].payload = 0
  /\ unit.out[1].outcome.Action = ActionUpdate

\* The largest execution time among responses rs, zero when there is none.
LongestOf(rs) ==
  IF rs = <<>> THEN 0
  ELSE LET ts == { rs[i].ExecutionTime : i \in 1..Len(rs) } IN
       CHOOSE m \in ts : \A t \in ts : m >= t

RECURSIVE SumTimes(_)
SumTimes(gs) ==
  IF gs = <<>> THEN 0
  ELSE Head(gs).ExecutionTimeMillis + SumTimes(Tail(gs))

\* C12: the time of the StageOutcome is the sum of the times of the
\* GroupOutcomes of the groups that ran, and the time of each GroupOutcome
\* is the largest execution time among the responses folded into it (zero
\* for a group without responses).
C12_TimesSumOfMax ==
  /\ stageOutcome.ExecutionTimeMillis = SumTimes(stageOutcome.Groups)
  /\ \A g \in Groups :
       Folded(g) =>
         /\ Len(Outcomes(g)) = Len(Responses(g))
         /\ hist[g].result.outcome.ExecutionTimeMillis = LongestOf(Responses(g))
         /\ stageOutcome.Groups[g].ExecutionTimeMillis = LongestOf(Responses(g))

C12_Witness ==
  /\ stagePc = "returned"
  /\ Len(stageOutcome.Groups) = 2
  /\ Len(Responses(1)) = 2
  /\ Responses(1)[1].ExecutionTime = Timeout
  /\ Responses(1)[2].ExecutionTime < Timeout
  /\ stageOutcome.Groups[1].ExecutionTimeMillis = Timeout
  /\ stageOutcome.Groups[2].ExecutionTimeMillis = 1
  /\ stageOutcome.ExecutionTimeMillis = Timeout + 1

\* What the collector of group g has received so far.
Collected(g) ==
  IF Folded(g) THEN Responses(g)
  ELSE IF hist[g].state = "running" THEN hookResponses
  ELSE <<>>

\* C13: the responses are kept in the order the collector received them
\* (the order in which the hook tasks delivered, not the order of
\* group.Hooks), InvocationResults follow that order, and the mutations of
\* the hooks are applied to the payload in that order.
C13_CompletionOrder ==
  \A g \in Groups :
    /\ \A h \in HooksOf(g) :
         race[g][h].rank > 0 =>
           /\ race[g][h].rank <= Len(Collected(g))
           /\ Collected(g)[race[g][h].rank].HookID = HookIDOf(g, h)
    /\ Len(Collected(g)) =
         Cardinality({ h \in HooksOf(g) : race[g][h].rank > 0 })
    /\ Folded(g) =>
         /\ Len(Outcomes(g)) = Len(Responses(g))
         /\ \A i \in 1..Len(Outcomes(g)) :
              Outcomes(g)[i].HookID = Responses(g)[i].HookID
         /\ hist[g].result.payload =
              ExpectedPayload(Responses(g), hist[g].payloadIn)

C13_Witness ==
  /\ Folded(1)
  /\ race[1][2].rank = 1
  /\ race[1][1].rank = 2
  /\ Outcomes(1)[1].HookID = HookIDOf(1, 2)
  /\ Outcomes(1)[2].HookID = HookIDOf(1, 1)
  /\ hist[1].result.payload #
       ExpectedPayload(<<Responses(1)[2], Responses(1)[1]>>, hist[1].payloadIn)

\* The responses of hook h of group g among those the collector received.
CollectedOf(g, h) ==
  { i \in 1..Len(Collected(g)) : Collected(g)[i].HookID = HookIDOf(g, h) }

\* C14: hookHandler is called once for a hook task that has started and
\* never again; a hook has at most one response, collected or being sent,
\* so the forwarded result and the synthesized timeout are never both
\* delivered; a hook task that took the rejected case delivers nothing.
C14_OneCallOneResponse ==
  \A g \in Groups, h \in Hooks :
    /\ race[g][h].calls <= 1
    /\ (taskPc[g][h] \in {"select", "send", "done"} \/ handler[g][h] # "idle")
          => race[g][h].calls = 1
    /\ Cardinality(CollectedOf(g, h)) + Len(pending[g][h]) <= 1
    /\ \A i \in CollectedOf(g, h) :
         /\ race[g][h].branch \in {"result", "timeout"}
         /\ (Collected(g)[i].Err = TimeoutError /\ Collected(g)[i].Result = ZeroResult)
              <=> race[g][h].branch = "timeout"
    /\ race[g][h].branch = "abort" =>
         CollectedOf(g, h) = {} /\ pending[g][h] = <<>>

C14_Witness ==
  /\ stagePc = "returned"
  /\ Folded(2)
  /\ race[1][1].branch = "timeout" /\ handler[1][1] = "late"
  /\ Cardinality(CollectedOf(1, 1)) = 1
  /\ race[2][1].branch = "result" /\ Cardinality(CollectedOf(2, 1)) = 1
  /\ race[2][2].branch = "abort" /\ handler[2][2] = "late"
  /\ CollectedOf(2, 2) = {}
  /\ race[1][1].calls = 1 /\ race[2][1].calls = 1 /\ race[2][2].calls = 1

\* C15: rejected is closed at most once and never reopened; it is closed
\* only by the collector, in the step in which it receives a response with
\* Reject = true and leaves its loop; once rejected is closed the collector
\* of that group receives no further response (so it cannot close again).
C15_AbortOneShot ==
  [][\A g \in Groups :
       /\ rejected[g] => rejected'[g] /\ Collected(g)' = Collected(g)
       /\ (~rejected[g] /\ rejected'[g]) =>
            /\ g = gi /\ stagePc = "collect" /\ stagePc' = "reduce"
            /\ Len(hookResponses') = Len(hookResponses) + 1
            /\ hookResponses'[Len(hookResponses')].Result.Reject
            /\ \A k \in Groups : k # g => rejected'[k] = rejected[k]]_vars

C15_Witness ==
  /\ rejected[1]
  /\ Folded(1)
  /\ Len(Responses(1)) = 1
  /\ taskPc[1][2] = "send"
  /\ pending[1][2] # <<>>
  /\ pending[1][2][1].Result.Reject

\* The collector of group g has left its loop.
CollectorDone(g) ==
  Folded(g) \/ (g = gi /\ hist[g].state = "running" /\ stagePc = "reduce")

\* C16: resp is closed only after every hook task of the group has
\* returned, so no hook task is sending or can still send on a closed resp;
\* a collector that left its loop without closing rejected did so on a
\* closed resp, with the response of every hook of the group collected.
C16_RespClosedAfterTasks ==
  \A g \in Groups :
    /\ respClosed[g] =>
         /\ hist[g].state # "none"
         /\ \A h \in HooksOf(g) : taskPc[g][h] = "done" /\ pending[g][h] = <<>>
    /\ (CollectorDone(g) /\ ~rejected[g]) =>
         /\ respClosed[g]
         /\ Len(Collected(g)) = plan[g]
         /\ \A h \in HooksOf(g) : Cardinality(CollectedOf(g, h)) = 1

C16_Witness ==
  /\ Folded(1)
  /\ plan[1] = 2
  /\ respClosed[1] /\ ~rejected[1]
  /\ race[1][1].branch = "timeout"
  /\ race[1][2].branch = "result"
  /\ Len(Responses(1)) = 2

\* C17: every hook is called with the payload its group was given; the
\* payload a group was given does not change while the group runs; the
\* payload of the stage changes only in the step of the reducer, in which
\* no hook task moves and the collector has stopped reading.
C17_PayloadSingleOwner ==
  [][/\ \A g \in Groups, h \in Hooks :
          race'[g][h].calls > 0 =>
            race'[g][h].payloadArg = <<hist'[g].payloadIn>>
     /\ \A g \in Groups :
          hist[g].state # "none" => hist'[g].payloadIn = hist[g].payloadIn
     /\ payload' # payload =>
          /\ stagePc = "reduce"
          /\ UNCHANGED <<taskPc, handler, hookRespCh, pending, race>>
     /\ stagePc = "reduce" => hookResponses' = hookResponses]_vars

C17_Witness ==
  /\ Folded(1) /\ Folded(2)
  /\ payload # hist[1].payloadIn
  /\ race[1][2].calls = 1
  /\ taskPc[1][2] = "select" /\ handler[1][2] = "running"
  /\ race[1][2].payloadArg = <<hist[1].payloadIn>>

\* The positions in rs of the responses of module m.
OfModule(rs, m) == { i \in 1..Len(rs) : rs[i].HookID.ModuleCode = m }

LastOf(S) == CHOOSE i \in S : \A j \in S : i >= j

\* The context map expected of a group that folded responses rs.
ExpectedCtx(rs) ==
  [m \in 1..NumModules |->
     IF OfModule(rs, m) = {} THEN <<>>
     ELSE <<rs[LastOf(OfModule(rs, m))].Result.ModuleContext>>]

\* The context maps of the groups: written by the reducer alone, one per
\* group folded, in plan order, the rejecting group included.
GroupContexts ==
  /\ Len(stageModuleCtx) = Cardinality({ g \in Groups : Folded(g) })
  /\ \A g \in Groups :
       Folded(g) =>
         /\ Len(Outcomes(g)) = Len(Responses(g))
         /\ hist[g].result.ctx = ExpectedCtx(Responses(g))
         /\ g <= Len(stageModuleCtx)
         /\ stageModuleCtx[g] = hist[g].result.ctx
  /\ (stagePc = "returned" /\ stageRejectErr # NoRejectErr) =>
       Len(stageModuleCtx) = gi /\ Folded(gi)

\* Every hook task launched was given the context looked up for its module.
ContextLookedUp ==
  \A g \in Groups, h \in Hooks :
    /\ taskPc[g][h] # "none" =>
         race[g][h].mCtx = <<getModuleContext(ModuleOf(g, h))>>
    /\ taskPc[g][h] = "none" => race[g][h].mCtx = <<>>

\* C18 as stated: the context of every hook is looked up before any hook
\* task of its group starts; the context map of a group holds, per module
\* among the folded responses, the ModuleContext of the last one folded
\* (error and timeout responses included); executeStage returns one map
\* per group that ran, in plan order, the rejecting group included.
C18_ContextsReadBeforeGroup ==
  /\ ContextLookedUp
  /\ \A g \in Groups, h \in Hooks : race[g][h].early
  /\ GroupContexts

\* C18, amended: the context of a hook is looked up before that hook's own
\* task is started (the tasks of the hooks before it in group.Hooks may
\* already run); the context maps are as stated.
C18_ContextsReadBeforeOwnTask ==
  /\ ContextLookedUp
  /\ GroupContexts

C18_Witness ==
  /\ stagePc = "returned"
  /\ Folded(2)
  /\ ~race[2][2].early
  /\ race[2][2].mCtx = <<getModuleContext(1)>>
  /\ Len(Responses(2)) = 2
  /\ Responses(2)[1].Result.ModuleContext = "c2"
  /\ Responses(2)[2].Err = TimeoutError
  /\ stageModuleCtx[2][1] = <<"nil">>
  /\ stageModuleCtx[2][2] = <<>>

\* C19: among the responses collected for a group at most one asks to
\* reject and it is the last one; every collected response is folded, so a
\* HookOutcome with Action = Reject is the last of InvocationResults and
\* the reducer's return on reject skips nothing; a group returns a
\* RejectError only if its rejected channel was closed.
C19_RejectIsLast ==
  \A g \in Groups :
    /\ \A i \in 1..Len(Collected(g)) :
         Collected(g)[i].Result.Reject =>
           i = Len(Collected(g)) /\ rejected[g]
    /\ Folded(g) =>
         /\ Len(Outcomes(g)) = Len(Responses(g))
         /\ \A i \in 1..Len(Outcomes(g)) :
              Outcomes(g)[i].Action = ActionReject => i = Len(Outcomes(g))
         /\ hist[g].result.rejectErr # NoRejectErr =>
              /\ rejected[g]
              /\ Outcomes(g)[Len(Outcomes(g))].Action = ActionReject

C19_Witness ==
  /\ Folded(1)
  /\ Len(Responses(1)) = 2
  /\ Responses(1)[2].Result.Reject
  /\ Outcomes(1)[1].Action = ActionUpdate
  /\ Outcomes(1)[2].Action = ActionReject
  /\ hist[1].result.rejectErr # NoRejectErr
  /\ rejected[1]

\* The handler of hook h of group g returned after the timer of its task
\* had fired or after rejected had been closed.
LostRace(g, h) == handler[g][h] \in {"late", "aborted"}

\* The goroutine of hookHandler ends as soon as the handler returns: its
\* send on hookRespCh finds a free slot.
HandlerNeverBlocks ==
  \A g \in Groups, h \in Hooks :
    handler[g][h] = "running" =>
      /\ hookRespCh[g][h] = <<>>
      /\ ENABLED HandlerReturn(g, h)

\* C20 as stated: the handler's goroutine never blocks, and the result of
\* a handler that returned after its timer had fired or after the group
\* had been aborted is never forwarded to the collector.
C20_LateResultNeverForwarded ==
  /\ HandlerNeverBlocks
  /\ \A g \in Groups, h \in Hooks :
       LostRace(g, h) =>
         /\ race[g][h].branch # "result"
         /\ \A i \in CollectedOf(g, h) : Collected(g)[i].Err = TimeoutError

\* C20, amended: the handler's goroutine never blocks, and once the select
\* of executeHook has taken its timeout or rejected case the result of the
\* handler, whenever it comes, stays unread in hookRespCh: the hook has the
\* synthesized timeout response alone, or none, and its only outcome, if
\* any, is the Timeout one.
C20_AbandonedResultDiscarded ==
  /\ HandlerNeverBlocks
  /\ \A g \in Groups, h \in Hooks :
       race[g][h].branch \in {"timeout", "abort"} =>
         /\ hookRespCh[g][h] \in {<<>>, <<Unread>>}
         /\ handler[g][h] # "running" => hookRespCh[g][h] = <<Unread>>
         /\ \A i \in 1..Len(pending[g][h]) :
              pending[g][h][i].Err = TimeoutError /\ pending[g][h][i].Result = ZeroResult
         /\ \A i \in CollectedOf(g, h) :
              Collected(g)[i].Err = TimeoutError /\ Collected(g)[i].Result = ZeroResult
         /\ Folded(g) =>
              \A i \in OutcomesOf(g, h) :
                /\ race[g][h].branch = "timeout"
                /\ Outcomes(g)[i].Status = StatusTimeout
                /\ Outcomes(g)[i].Action = ActionNone

C20_Witness ==
  /\ stagePc = "returned"
  /\ Folded(1)
  /\ Len(Responses(1)) = 2
  /\ race[1][1].branch = "timeout"
  /\ handler[1][1] = "late"
  /\ hookRespCh[1][1] = <<Unread>>
  /\ Outcomes(1)[1].Status = StatusTimeout
  /\ Outcomes(1)[2].Action = ActionUpdate
  /\ payload = ExpectedPayload(<<Responses(1)[2]>>, InitPayload)
====
